---------------------------- MODULE Spec2Model ----------------------------
(***************************************************************************)
(* Mutation resolvers of the sickFits backend (src/src/resolvers/Mutation.js*)
(* lines 50-393, the second and exported `Mutations` object) and the Query *)
(* resolvers (src/unnamed/part_000), as a state machine.                   *)
(*                                                                         *)
(* The store (Prisma), the payment gateway (Stripe) and the mail transport *)
(* are the shared state.  Every resolver is an async function: each        *)
(* `await` on an adapter is a point where another request may run, so a    *)
(* resolver is one action per awaited adapter call.  A request runs in a   *)
(* slot of `req`; its `pc` is the adapter call it is about to make.        *)
(***************************************************************************)
EXTENDS Integers, Sequences, FiniteSets, TLC

VARIABLES
    users,      \* store: User nodes,     id -> record
    items,      \* store: Item nodes,     id -> record
    cartItems,  \* store: CartItem nodes, id -> record
    orders,     \* store: Order nodes,    id -> record
    charges,    \* payment gateway: every charge submitted, in order
    outbox,     \* mail transport: every sendMail call, in order
    redeemed,   \* reset tokens in the order resetPassword accepted them for good
    now,        \* Date.now(), in milliseconds
    req,        \* the requests in flight, one per slot
    response,   \* the answer sent last: the request and its result
    nextId,     \* next fresh node id / random token of the store
    budget      \* number of requests the model may still start

vars == <<users, items, cartItems, orders, charges, outbox, redeemed, now, req, response,
          nextId, budget>>

---------------------------------------------------------------------------
(* Bounds of the model *)

\* Number of requests started in one behaviour of the cart and checkout
\* specification, and of the sign-in, the password reset and the catalog
\* specifications.
MaxCartRequests == 3
MaxAuthRequests == 3
MaxResetRequests == 4
MaxAdminRequests == 2
\* Number of request slots, i.e. of requests that may overlap.
NumProcs == 2
\* The clock advances in steps of Tick up to MaxTicks steps.
MaxTicks == 5

Procs == 1..NumProcs

---------------------------------------------------------------------------
(* Values *)

\* `undefined` / `null` for an id, a token or an expiry: ids and tokens are >= 1.
Null == 0

\* requestReset: `Date.now() + 3600000`; resetPassword: `Date.now() - 3600000`.
ResetWindow == 3600000

\* Half an hour, the granularity of the model's clock.
Tick == ResetWindow \div 2

\* createCartItem is called without a quantity: the datamodel's default.
DefaultQuantity == 1

\* Opaque payment tokens a client may present (args.token).
PaymentTokens == {"tok_visa", "tok_other"}

Ok(v) == [kind |-> "ok", value |-> v]
Err(m) == [kind |-> "error", message |-> m]

NoLocal == [none |-> TRUE]

IdleReq == [op |-> "idle", pc |-> "done", userId |-> Null,
            args |-> NoLocal, local |-> NoLocal]

\* Extend or overwrite a function at one point.
Put(f, k, v) == [x \in (DOMAIN f) \cup {k} |-> IF x = k THEN v ELSE f[x]]
\* Remove a set of points from a function.
Drop(f, ks) == [x \in (DOMAIN f) \ ks |-> f[x]]

Min(S) == CHOOSE x \in S : \A y \in S : x <= y

\* The ids of S in ascending order: the order in which the store returns nodes.
RECURSIVE Ascending(_)
Ascending(S) == IF S = {} THEN <<>> ELSE <<Min(S)>> \o Ascending(S \ {Min(S)})

---------------------------------------------------------------------------
(* Requests *)

\* A slot is free when it holds no request.  Free slots are interchangeable:
\* a new request takes the first one.
Free(p) ==
    /\ req[p].pc = "done"
    /\ \A q \in Procs : q < p => req[q].pc # "done"
    /\ budget > 0

Response(op, caller, args, result) ==
    [op |-> op, userId |-> caller, result |-> result]

\* A new request is answered at once with `result`, before its first await.
Answer(p, op, caller, args, result) ==
    /\ response' = Response(op, caller, args, result)
    /\ budget' = budget - 1
    /\ UNCHANGED req

\* Slot p takes a new request that continues at `pc` with `local`.
Await(p, op, caller, args, pc, local) ==
    /\ req' = [req EXCEPT ![p] = [op |-> op, pc |-> pc, userId |-> caller,
                                  args |-> args, local |-> local]]
    /\ budget' = budget - 1
    /\ UNCHANGED response

\* The request of slot p moves on to `pc` with `local`.
Continue(p, pc, local) ==
    /\ req' = [req EXCEPT ![p].pc = pc, ![p].local = local]
    /\ UNCHANGED response

\* The request of slot p is answered and leaves its slot.
Finish(p, result) ==
    /\ response' = Response(req[p].op, req[p].userId, req[p].args, result)
    /\ req' = [req EXCEPT ![p] = IdleReq]

At(p, op, pc) == req[p].op = op /\ req[p].pc = pc

\* ctx.request.userId: absent, or the id in a session cookie (every user is
\* handed one by signup).
Callers == {Null} \cup DOMAIN users

---------------------------------------------------------------------------
(* addToCart, Mutation.js 246-291 *)

\* ctx.db.query.cartItems({where: {user: {id}, item: {id}}}): matching rows.
CartRows(userId, itemId) ==
    {c \in DOMAIN cartItems : cartItems[c].user = userId /\ cartItems[c].item = itemId}

\* `const [existingCartItem] = await ...`: the first matching row, or undefined.
FirstCartItem(userId, itemId) ==
    IF CartRows(userId, itemId) = {}
    THEN [id |-> Null, quantity |-> Null]
    ELSE LET c == Min(CartRows(userId, itemId))
         IN [id |-> c, quantity |-> cartItems[c].quantity]

\* Steps 1 and 2: the login check and the query of the caller's cart.
addToCart_query(p, caller, itemId) ==
    /\ Free(p)
    /\ IF caller = Null
       THEN Answer(p, "addToCart", caller, [id |-> itemId], Err("You must be logged in!"))
       ELSE Await(p, "addToCart", caller, [id |-> itemId], "mutate",
                  [existingCartItem |-> FirstCartItem(caller, itemId)])
    /\ UNCHANGED <<users, items, cartItems, orders, charges, outbox, redeemed, now, nextId>>

\* Step 4: createCartItem connecting the user and the item.
createCartItem(userId, itemId) ==
    [user |-> userId, item |-> itemId, quantity |-> DefaultQuantity]

\* As addToCart_mutate, but a second line is created where the row read
\* before should be updated.
addToCart_mutate_alwaysCreates(p) ==
    /\ At(p, "addToCart", "mutate")
    /\ cartItems' = Put(cartItems, nextId,
                        createCartItem(req[p].userId, req[p].args.id))
    /\ nextId' = nextId + 1
    /\ Finish(p, Ok(nextId))
    /\ UNCHANGED <<users, items, orders, charges, outbox, redeemed, now, budget>>

\* Steps 3 and 4: updateCartItem on the row read before, or createCartItem.
\* updateCartItem on a row that was deleted meanwhile is an error of the store.
addToCart_mutate(p) ==
    /\ At(p, "addToCart", "mutate")
    /\ LET existing == req[p].local.existingCartItem
       IN IF existing.id # Null
          THEN IF existing.id \in DOMAIN cartItems
               THEN /\ cartItems' = [cartItems EXCEPT
                                       ![existing.id].quantity = existing.quantity + 1]
                    /\ Finish(p, Ok(existing.id))
                    /\ UNCHANGED nextId
               ELSE /\ Finish(p, Err("StoreError"))
                    /\ UNCHANGED <<cartItems, nextId>>
          ELSE /\ cartItems' = Put(cartItems, nextId,
                                   createCartItem(req[p].userId, req[p].args.id))
               /\ nextId' = nextId + 1
               /\ Finish(p, Ok(nextId))
    /\ UNCHANGED <<users, items, orders, charges, outbox, redeemed, now, budget>>

---------------------------------------------------------------------------
(* removeFromCart, Mutation.js 292-318 *)

\* Steps 1, 1.5 and 2: find the cart item, check it exists and is the caller's.
removeFromCart_query(p, caller, cartItemId) ==
    /\ Free(p)
    /\ IF cartItemId \notin DOMAIN cartItems
       THEN Answer(p, "removeFromCart", caller, [id |-> cartItemId],
                   Err("No CartItem found!"))
       ELSE IF cartItems[cartItemId].user # caller
       THEN Answer(p, "removeFromCart", caller, [id |-> cartItemId],
                   Err("This item is not Yours!"))
       ELSE Await(p, "removeFromCart", caller, [id |-> cartItemId], "mutate", NoLocal)
    /\ UNCHANGED <<users, items, cartItems, orders, charges, outbox, redeemed, now, nextId>>

\* Step 3: deleteCartItem; deleting a row that is gone is an error of the store.
removeFromCart_mutate(p) ==
    /\ At(p, "removeFromCart", "mutate")
    /\ IF req[p].args.id \in DOMAIN cartItems
       THEN /\ cartItems' = Drop(cartItems, {req[p].args.id})
            /\ Finish(p, Ok(req[p].args.id))
       ELSE /\ Finish(p, Err("StoreError"))
            /\ UNCHANGED cartItems
    /\ UNCHANGED <<users, items, orders, charges, outbox, redeemed, now, nextId, budget>>

---------------------------------------------------------------------------
(* createOrder, Mutation.js 319-392 *)

\* The `cart { id quantity item { ... } }` selection of the user query: the
\* caller's cart lines with the item fields as they are at the time of the read.
CartOf(userId) ==
    LET ids == Ascending({c \in DOMAIN cartItems : cartItems[c].user = userId})
    IN [i \in DOMAIN ids |->
          [id |-> ids[i],
           quantity |-> cartItems[ids[i]].quantity,
           item |-> [id |-> cartItems[ids[i]].item,
                     title |-> items[cartItems[ids[i]].item].title,
                     price |-> items[cartItems[ids[i]].item].price]]]

\* As Amount, but the quantity of a line is left out.
RECURSIVE Amount_perLine(_)
Amount_perLine(cart) ==
    IF cart = <<>> THEN 0
    ELSE Amount_perLine(SubSeq(cart, 1, Len(cart) - 1)) + cart[Len(cart)].item.price

\* Step 2: user.cart.reduce((tally, cartItem) => tally + price * quantity, 0).
RECURSIVE Amount(_)
Amount(cart) ==
    IF cart = <<>> THEN 0
    ELSE Amount(SubSeq(cart, 1, Len(cart) - 1))
         + cart[Len(cart)].item.price * cart[Len(cart)].quantity

\* As OrderItems, but every line is recorded as one unit.
OrderItems_oneUnit(cart, userId) ==
    [i \in DOMAIN cart |-> [title |-> cart[i].item.title,
                            price |-> cart[i].item.price,
                            quantity |-> 1,
                            user |-> userId]]

\* Step 4: the item's fields without its id, plus the quantity and the user.
OrderItems(cart, userId) ==
    [i \in DOMAIN cart |-> [title |-> cart[i].item.title,
                            price |-> cart[i].item.price,
                            quantity |-> cart[i].quantity,
                            user |-> userId]]

\* Step 6: user.cart.map(cartItem => cartItem.id).
CartItemsId(cart) == {cart[i].id : i \in DOMAIN cart}

\* Steps 1 and 2: the login check, the query of the caller's cart, the total.
createOrder_query(p, caller, token) ==
    /\ Free(p)
    /\ IF caller = Null
       THEN Answer(p, "createOrder", caller, [token |-> token],
                   Err("You must be signed in!"))
       ELSE Await(p, "createOrder", caller, [token |-> token], "charge",
                  [cart |-> CartOf(caller), amount |-> Amount(CartOf(caller))])
    /\ UNCHANGED <<users, items, cartItems, orders, charges, outbox, redeemed, now, nextId>>

\* Step 3, gateway accepts: stripe.charges.create({amount, currency, source})
\* resolves to a charge {id, amount}.  The gateway logs what was submitted.
createOrder_charge(p) ==
    /\ At(p, "createOrder", "charge")
    /\ charges' = Append(charges, [amount |-> req[p].local.amount,
                                   source |-> req[p].args.token,
                                   captured |-> TRUE])
    /\ Continue(p, "createOrder",
                [cart |-> req[p].local.cart, amount |-> req[p].local.amount,
                 charge |-> [id |-> Len(charges) + 1, amount |-> req[p].local.amount]])
    /\ UNCHANGED <<users, items, cartItems, orders, outbox, redeemed, now, nextId, budget>>

\* As createOrder_chargeFails, but the cart is cleaned up whatever the charge
\* came to.
createOrder_chargeFails_cleansUp(p) ==
    /\ At(p, "createOrder", "charge")
    /\ charges' = Append(charges, [amount |-> req[p].local.amount,
                                   source |-> req[p].args.token,
                                   captured |-> FALSE])
    /\ cartItems' = Drop(cartItems, CartItemsId(req[p].local.cart))
    /\ Finish(p, Err("GatewayError"))
    /\ UNCHANGED <<users, items, orders, outbox, redeemed, now, nextId, budget>>

\* Step 3, gateway declines or is unreachable: the await throws, the resolver
\* makes no further call.
createOrder_chargeFails(p) ==
    /\ At(p, "createOrder", "charge")
    /\ charges' = Append(charges, [amount |-> req[p].local.amount,
                                   source |-> req[p].args.token,
                                   captured |-> FALSE])
    /\ Finish(p, Err("GatewayError"))
    /\ UNCHANGED <<users, items, cartItems, orders, outbox, redeemed, now, nextId, budget>>

\* Step 5: ctx.db.mutation.createOrder with the charge's amount and id.
createOrder_createOrder(p) ==
    /\ At(p, "createOrder", "createOrder")
    /\ orders' = Put(orders, nextId,
                     [total |-> req[p].local.charge.amount,
                      charge |-> req[p].local.charge.id,
                      items |-> OrderItems(req[p].local.cart, req[p].userId),
                      user |-> req[p].userId])
    /\ nextId' = nextId + 1
    /\ Continue(p, "deleteManyCartItems",
                [cart |-> req[p].local.cart, amount |-> req[p].local.amount,
                 charge |-> req[p].local.charge, order |-> nextId])
    /\ UNCHANGED <<users, items, cartItems, charges, outbox, redeemed, now, budget>>

\* Step 5 fails in the store (unreachable, constraint, timeout): the await
\* throws the store's error; nothing catches it.
createOrder_createOrderFails(p) ==
    /\ At(p, "createOrder", "createOrder")
    /\ Finish(p, Err("StoreError"))
    /\ UNCHANGED <<users, items, cartItems, orders, charges, outbox, redeemed, now, nextId, budget>>

\* Steps 6 and 7: deleteManyCartItems({where: {id_in}}) and the answer.
createOrder_deleteManyCartItems(p) ==
    /\ At(p, "createOrder", "deleteManyCartItems")
    /\ cartItems' = Drop(cartItems, CartItemsId(req[p].local.cart))
    /\ Finish(p, Ok(req[p].local.order))
    /\ UNCHANGED <<users, items, orders, charges, outbox, redeemed, now, nextId, budget>>

\* Step 6 fails in the store: the await throws, the cart rows stay.
createOrder_deleteManyCartItemsFails(p) ==
    /\ At(p, "createOrder", "deleteManyCartItems")
    /\ Finish(p, Err("StoreError"))
    /\ UNCHANGED <<users, items, cartItems, orders, charges, outbox, redeemed, now, nextId, budget>>

---------------------------------------------------------------------------
(* Cart and checkout: one signed-up user, two items of the catalog *)

\* bcrypt.hash(password, 10) and bcrypt.compare: the hash is not the plaintext
\* and verifies against it alone.
Hash(password) == <<"bcrypt", password>>
Compare(password, hash) == hash = Hash(password)

NewUser(email, password) ==
    [email |-> email, password |-> password, permissions |-> {"USER"},
     resetToken |-> Null, resetTokenExpiry |-> Null]

CartInit ==
    /\ users = (1 :> NewUser(<<"a", "b">>, Hash("pw1")))
    /\ items = (1 :> [title |-> "shoes", price |-> 500, user |-> 1]
                @@ 2 :> [title |-> "hat", price |-> 300, user |-> 1])
    /\ cartItems = <<>>
    /\ orders = <<>>
    /\ charges = <<>>
    /\ outbox = <<>>
    /\ redeemed = <<>>
    /\ now = 0
    /\ req = [p \in Procs |-> IdleReq]
    /\ response = Response("idle", Null, NoLocal, Ok(Null))
    /\ nextId = 1
    /\ budget = MaxCartRequests

CartNext ==
    \/ \E p \in Procs, caller \in Callers, itemId \in DOMAIN items :
          addToCart_query(p, caller, itemId)
    \/ \E p \in Procs : addToCart_mutate(p)
    \/ \E p \in Procs, caller \in Callers, c \in DOMAIN cartItems :
          removeFromCart_query(p, caller, c)
    \/ \E p \in Procs : removeFromCart_mutate(p)
    \/ \E p \in Procs, caller \in Callers, token \in PaymentTokens :
          createOrder_query(p, caller, token)
    \/ \E p \in Procs : createOrder_charge(p)
    \/ \E p \in Procs : createOrder_chargeFails(p)
    \/ \E p \in Procs : createOrder_createOrder(p)
    \/ \E p \in Procs : createOrder_createOrderFails(p)
    \/ \E p \in Procs : createOrder_deleteManyCartItems(p)
    \/ \E p \in Procs : createOrder_deleteManyCartItemsFails(p)

SpecCart == CartInit /\ [][CartNext]_vars

---------------------------------------------------------------------------
(* Accounts: signup, signin, signout, Mutation.js 104-156 *)

\* Emails the clients present: letter-case variants of one address, and
\* another address.
Emails == {<<"a", "b">>, <<"A", "b">>, <<"A", "B">>, <<"b", "a">>}

Passwords == {"pw1", "pw2"}

\* String.prototype.toLowerCase, letter by letter.
LowerLetter(c) == CASE c = "A" -> "a" [] c = "B" -> "b" [] OTHER -> c
toLowerCase(email) == [i \in DOMAIN email |-> LowerLetter(email[i])]

\* ctx.db.query.user({where: {email}}): the user with exactly this email, or null.
UserByEmail(email) ==
    IF \E u \in DOMAIN users : users[u].email = email
    THEN CHOOSE u \in DOMAIN users : users[u].email = email
    ELSE Null

\* jwt.sign({userId}) set as the `token` cookie, and the user returned.
Session(userId) == Ok([user |-> userId, cookie |-> userId])

\* signup: lowercases the email, hashes the password, createUser with the
\* permission set {USER}; the store refuses a second user with the same email.
signup(p, email, password) ==
    /\ Free(p)
    /\ IF UserByEmail(toLowerCase(email)) # Null
       THEN /\ Answer(p, "signup", Null, [email |-> email], Err("StoreError"))
            /\ UNCHANGED <<users, nextId>>
       ELSE /\ users' = Put(users, nextId, NewUser(toLowerCase(email), Hash(password)))
            /\ nextId' = nextId + 1
            /\ Answer(p, "signup", Null, [email |-> email], Session(nextId))
    /\ UNCHANGED <<items, cartItems, orders, charges, outbox, redeemed, now>>

\* The email signin and requestReset look the user up by, Mutation.js 132, 159.
LookupEmail(email) == email

\* signin: the user with the email as given, then bcrypt.compare.
signin(p, email, password) ==
    /\ Free(p)
    /\ LET user == UserByEmail(LookupEmail(email))
       IN IF user = Null
          THEN Answer(p, "signin", Null, [email |-> email], Err("No such user found"))
          ELSE IF ~Compare(password, users[user].password)
          THEN Answer(p, "signin", Null, [email |-> email], Err("Invalid password"))
          ELSE Answer(p, "signin", Null, [email |-> email], Session(user))
    /\ UNCHANGED <<users, items, cartItems, orders, charges, outbox, redeemed, now, nextId>>

\* signout: clears the cookie, whoever calls.
signout(p, caller) ==
    /\ Free(p)
    /\ Answer(p, "signout", caller, NoLocal, Ok([message |-> "Goodbye!", cookie |-> Null]))
    /\ UNCHANGED <<users, items, cartItems, orders, charges, outbox, redeemed, now, nextId>>

---------------------------------------------------------------------------
(* Password reset: requestReset and resetPassword, Mutation.js 157-220 *)

\* Step 1: is there a user with this email.
requestReset_query(p, email) ==
    /\ Free(p)
    /\ IF UserByEmail(LookupEmail(email)) = Null
       THEN Answer(p, "requestReset", Null, [email |-> email], Err("No such user found"))
       ELSE Await(p, "requestReset", Null, [email |-> email], "updateUser",
                  [user |-> UserByEmail(LookupEmail(email))])
    /\ UNCHANGED <<users, items, cartItems, orders, charges, outbox, redeemed, now, nextId>>

\* `Date.now() + 3600000`.
ResetTokenExpiry(t) == t + ResetWindow

\* Step 2: a fresh random token and its expiry are set on the user with that
\* email.
requestReset_updateUser(p) ==
    /\ At(p, "requestReset", "updateUser")
    /\ users' = [users EXCEPT ![UserByEmail(req[p].args.email)].resetToken = nextId,
                              ![UserByEmail(req[p].args.email)].resetTokenExpiry =
                                   ResetTokenExpiry(now)]
    /\ nextId' = nextId + 1
    /\ Continue(p, "sendMail", [user |-> req[p].local.user, resetToken |-> nextId])
    /\ UNCHANGED <<items, cartItems, orders, charges, outbox, redeemed, now, budget>>

\* Steps 3 and 4: the mail with the token is sent, the message is returned.
requestReset_sendMail(p) ==
    /\ At(p, "requestReset", "sendMail")
    /\ outbox' = Append(outbox, [to |-> users[req[p].local.user].email,
                                 resetToken |-> req[p].local.resetToken])
    /\ Finish(p, Ok([message |-> "Thanks!"]))
    /\ UNCHANGED <<users, items, cartItems, orders, charges, redeemed, now, nextId, budget>>

\* Step 3 fails in the transport: the await throws.
requestReset_sendMailFails(p) ==
    /\ At(p, "requestReset", "sendMail")
    /\ Finish(p, Err("MailError"))
    /\ UNCHANGED <<users, items, cartItems, orders, charges, outbox, redeemed, now, nextId, budget>>

\* The where clause of step 2 and 3 of resetPassword: the token matches and
\* `resetTokenExpiry_gte: Date.now() - 3600000`.
TokenMatches(u, resetToken, t) ==
    /\ users[u].resetToken = resetToken
    /\ users[u].resetTokenExpiry # Null
    /\ users[u].resetTokenExpiry >= t - ResetWindow

\* `const [user] = await ctx.db.query.users({where})`: the first match or undefined.
UserByToken(resetToken, t) ==
    IF \E u \in DOMAIN users : TokenMatches(u, resetToken, t)
    THEN Min({u \in DOMAIN users : TokenMatches(u, resetToken, t)})
    ELSE Null

\* Steps 1 to 3: the passwords match, a user holds the token, unexpired.
resetPassword_query(p, resetToken, password, confirmPassword) ==
    /\ Free(p)
    /\ LET args == [resetToken |-> resetToken, password |-> password]
       IN IF password # confirmPassword
          THEN Answer(p, "resetPassword", Null, args, Err("Your Password don't Match"))
          ELSE IF UserByToken(resetToken, now) = Null
          THEN Answer(p, "resetPassword", Null, args,
                      Err("This token is wither invalid or expired!"))
          ELSE Await(p, "resetPassword", Null, args, "updateUser",
                     [user |-> UserByToken(resetToken, now),
                      email |-> users[UserByToken(resetToken, now)].email])
    /\ UNCHANGED <<users, items, cartItems, orders, charges, outbox, redeemed, now, nextId>>

\* Steps 4 to 8: the new hash is saved on the user with the email read, the
\* token and its expiry are removed, the session cookie is set.
resetPassword_updateUser(p) ==
    /\ At(p, "resetPassword", "updateUser")
    /\ LET u == UserByEmail(req[p].local.email)
       IN /\ users' = [users EXCEPT ![u].password = Hash(req[p].args.password),
                                    ![u].resetToken = Null,
                                    ![u].resetTokenExpiry = Null]
          /\ Finish(p, Session(u))
    /\ redeemed' = Append(redeemed, req[p].args.resetToken)
    /\ UNCHANGED <<items, cartItems, orders, charges, outbox, now, nextId, budget>>

\* Time passes.
Tick_now ==
    /\ now < MaxTicks * Tick
    /\ now' = now + Tick
    /\ UNCHANGED <<users, items, cartItems, orders, charges, outbox, redeemed, req, response,
                   nextId, budget>>

\* Reset tokens a client may present: one that was mailed, or one that no
\* request has issued.
ResetTokens == {outbox[i].resetToken : i \in DOMAIN outbox} \cup {nextId}

\* One signed-up user; nothing else in the store.
AccountInit ==
    /\ users = (1 :> NewUser(<<"a", "b">>, Hash("pw1")))
    /\ items = <<>>
    /\ cartItems = <<>>
    /\ orders = <<>>
    /\ charges = <<>>
    /\ outbox = <<>>
    /\ redeemed = <<>>
    /\ now = 0
    /\ req = [p \in Procs |-> IdleReq]
    /\ response = Response("idle", Null, NoLocal, Ok(Null))
    /\ nextId = 2

(* Sign-up and sign-in, with the lookup of requestReset *)

AuthInit == AccountInit /\ budget = MaxAuthRequests

AuthNext ==
    \/ \E p \in Procs, email \in Emails, password \in Passwords :
          signup(p, email, password)
    \/ \E p \in Procs, email \in Emails, password \in Passwords :
          signin(p, email, password)
    \/ \E p \in Procs, caller \in Callers : signout(p, caller)
    \/ \E p \in Procs, email \in Emails : requestReset_query(p, email)
    \/ \E p \in Procs : requestReset_updateUser(p)
    \/ \E p \in Procs : requestReset_sendMail(p)
    \/ \E p \in Procs : requestReset_sendMailFails(p)

SpecAuth == AuthInit /\ [][AuthNext]_vars

(* Password reset, with the clock *)

ResetInit == AccountInit /\ budget = MaxResetRequests

ResetNext ==
    \/ \E p \in Procs, email \in Emails : requestReset_query(p, email)
    \/ \E p \in Procs : requestReset_updateUser(p)
    \/ \E p \in Procs : requestReset_sendMail(p)
    \/ \E p \in Procs : requestReset_sendMailFails(p)
    \/ \E p \in Procs, resetToken \in ResetTokens, password \in Passwords,
          confirmPassword \in Passwords :
          resetPassword_query(p, resetToken, password, confirmPassword)
    \/ \E p \in Procs : resetPassword_updateUser(p)
    \/ Tick_now

SpecReset == ResetInit /\ [][ResetNext]_vars

---------------------------------------------------------------------------
(* Catalog: createItem, updateItem, deleteItem, Mutation.js 51-103 *)

\* Item fields a client may send: a title, a price, or both.
ItemFields ==
    {[title |-> "boots"], [price |-> 700], [title |-> "boots", price |-> 700]}

\* ctx.request.user: the caller's user record as the server attached it to the
\* request when it arrived; undefined without a session.
CachedPermissions(caller) == IF caller = Null THEN {} ELSE users[caller].permissions

\* createItem: the login check, then the item connected to the caller.
createItem(p, caller, fields) ==
    /\ Free(p)
    /\ IF caller = Null
       THEN /\ Answer(p, "createItem", caller, fields,
                      Err("You must be logged in to do that!"))
            /\ UNCHANGED <<items, nextId>>
       ELSE /\ items' = Put(items, nextId, [title |-> fields.title,
                                            price |-> fields.price, user |-> caller])
            /\ nextId' = nextId + 1
            /\ Answer(p, "createItem", caller, fields, Ok(nextId))
    /\ UNCHANGED <<users, cartItems, orders, charges, outbox, redeemed, now>>

\* `data: updates`: the item with the fields sent written over its own.
ApplyUpdates(item, updates) ==
    [f \in DOMAIN item |-> IF f \in DOMAIN updates THEN updates[f] ELSE item[f]]

\* Whether updateItem lets this caller change this item, Mutation.js 72-87:
\* the resolver reads neither ctx.request.userId nor the item's owner.
MayUpdateItem(caller, itemId) == TRUE

\* updateItem: the args without the id are written to the item with that id.
updateItem(p, caller, itemId, updates) ==
    /\ Free(p)
    /\ IF ~MayUpdateItem(caller, itemId)
       THEN /\ Answer(p, "updateItem", caller, [id |-> itemId],
                      Err("You don't have permission to do that!"))
            /\ UNCHANGED items
       ELSE IF itemId \notin DOMAIN items
       THEN /\ Answer(p, "updateItem", caller, [id |-> itemId], Err("StoreError"))
            /\ UNCHANGED items
       ELSE /\ items' = [items EXCEPT ![itemId] = ApplyUpdates(@, updates)]
            /\ Answer(p, "updateItem", caller, [id |-> itemId], Ok(itemId))
    /\ UNCHANGED <<users, cartItems, orders, charges, outbox, redeemed, now, nextId>>

\* Step 2 of deleteItem: the caller owns the item or holds ADMIN or ITEMDELETE.
MayDeleteItem(caller, permissions, item) ==
    \/ caller = item.user
    \/ permissions \cap {"ADMIN", "ITEMDELETE"} # {}

\* Steps 1 and 2: find the item, check ownership or permission.  Reading
\* `item.user` of no item, or the permissions of no user, throws a TypeError.
deleteItem_query(p, caller, itemId) ==
    /\ Free(p)
    /\ IF itemId \notin DOMAIN items \/ caller = Null
       THEN Answer(p, "deleteItem", caller, [id |-> itemId], Err("TypeError"))
       ELSE IF ~MayDeleteItem(caller, CachedPermissions(caller), items[itemId])
       THEN Answer(p, "deleteItem", caller, [id |-> itemId],
                   Err("You don't have permission to do that!"))
       ELSE Await(p, "deleteItem", caller, [id |-> itemId], "mutate", NoLocal)
    /\ UNCHANGED <<users, items, cartItems, orders, charges, outbox, redeemed, now, nextId>>

\* Step 3: delete it; deleting an item that is gone is an error of the store.
deleteItem_mutate(p) ==
    /\ At(p, "deleteItem", "mutate")
    /\ IF req[p].args.id \in DOMAIN items
       THEN /\ items' = Drop(items, {req[p].args.id})
            /\ Finish(p, Ok(req[p].args.id))
       ELSE /\ Finish(p, Err("StoreError"))
            /\ UNCHANGED items
    /\ UNCHANGED <<users, cartItems, orders, charges, outbox, redeemed, now, nextId, budget>>

---------------------------------------------------------------------------
(* updatePermissions, Mutation.js 221-245 *)

\* Permission sets a client may send as args.permissions.
PermissionSets == {{}, {"USER"}, {"ADMIN", "USER"}, {"USER", "PERMISSIONUPDATE"}}

\* hasPermission(user, permissionsNeeded) of ../utils: throws unless the
\* user's permissions include one of those needed.
hasPermission(permissions, permissionsNeeded) ==
    permissions \cap permissionsNeeded # {}

\* The permissions updatePermissions asks for, Mutation.js 232.
UpdatePermissionsNeeded == {"ADMIN", "PERMISSIONUPDATE"}

\* As updatePermissions_query, but without the permission check of step 3.
updatePermissions_query_unchecked(p, caller, userId, permissions) ==
    /\ Free(p)
    /\ LET args == [userId |-> userId, permissions |-> permissions]
       IN IF caller = Null
          THEN Answer(p, "updatePermissions", caller, args, Err("You must be logged in!"))
          ELSE Await(p, "updatePermissions", caller, args, "updateUser", NoLocal)
    /\ UNCHANGED <<users, items, cartItems, orders, charges, outbox, redeemed, now, nextId>>

\* Steps 1 to 3: the login check, the query of the logged-in user, the
\* permission check on the user read.
updatePermissions_query(p, caller, userId, permissions) ==
    /\ Free(p)
    /\ LET args == [userId |-> userId, permissions |-> permissions]
       IN IF caller = Null
          THEN Answer(p, "updatePermissions", caller, args, Err("You must be logged in!"))
          ELSE IF ~hasPermission(users[caller].permissions, UpdatePermissionsNeeded)
          THEN Answer(p, "updatePermissions", caller, args,
                      Err("You do not have sufficient permissions"))
          ELSE Await(p, "updatePermissions", caller, args, "updateUser", NoLocal)
    /\ UNCHANGED <<users, items, cartItems, orders, charges, outbox, redeemed, now, nextId>>

\* Step 4: the target's permissions are set to args.permissions.
updatePermissions_updateUser(p) ==
    /\ At(p, "updatePermissions", "updateUser")
    /\ IF req[p].args.userId \in DOMAIN users
       THEN /\ users' = [users EXCEPT
                           ![req[p].args.userId].permissions = req[p].args.permissions]
            /\ Finish(p, Ok(req[p].args.userId))
       ELSE /\ Finish(p, Err("StoreError"))
            /\ UNCHANGED users
    /\ UNCHANGED <<items, cartItems, orders, charges, outbox, redeemed, now, nextId, budget>>

---------------------------------------------------------------------------
(* Queries: users and order, part_000 20-57 *)

\* The permissions the users query asks for, part_000 26.
UsersNeeded == {"ADMIN", "PERISSIONUPDATE"}

\* users: the login check, the permission check on the user attached to the
\* request, then every user of the store.
users_query(p, caller) ==
    /\ Free(p)
    /\ IF caller = Null
       THEN Answer(p, "users", caller, NoLocal, Err("You must be logged in!"))
       ELSE IF ~hasPermission(CachedPermissions(caller), UsersNeeded)
       THEN Answer(p, "users", caller, NoLocal,
                   Err("You do not have sufficient permissions"))
       ELSE Answer(p, "users", caller, NoLocal, Ok(DOMAIN users))
    /\ UNCHANGED <<users, items, cartItems, orders, charges, outbox, redeemed, now, nextId>>

\* Step 3 of order: `if (!ownsOrder || !hasPermissionToSeeOrder) throw`.
MaySeeOrder(caller, permissions, order) ==
    ~(~(order.user = caller) \/ ~("ADMIN" \in permissions))

\* order: the login check, the order with that id, the check of step 3.
\* Reading `order.user` of no order throws a TypeError.
order_query(p, caller, orderId) ==
    /\ Free(p)
    /\ IF caller = Null
       THEN Answer(p, "order", caller, [id |-> orderId], Err("You must be logged in!"))
       ELSE IF orderId \notin DOMAIN orders
       THEN Answer(p, "order", caller, [id |-> orderId], Err("TypeError"))
       ELSE IF ~MaySeeOrder(caller, CachedPermissions(caller), orders[orderId])
       THEN Answer(p, "order", caller, [id |-> orderId], Err("You cant see this! :)"))
       ELSE Answer(p, "order", caller, [id |-> orderId], Ok(orderId))
    /\ UNCHANGED <<users, items, cartItems, orders, charges, outbox, redeemed, now, nextId>>

---------------------------------------------------------------------------
(* Catalog and administration: an administrator, two plain users, one
   item, and an order of the administrator and of a plain user each *)

AdminInit ==
    /\ users = (1 :> [NewUser(<<"a", "b">>, Hash("pw1")) EXCEPT
                         !.permissions = {"ADMIN", "USER"}]
                @@ 2 :> NewUser(<<"b", "a">>, Hash("pw2"))
                @@ 3 :> NewUser(<<"b", "b">>, Hash("pw2")))
    /\ items = (1 :> [title |-> "shoes", price |-> 500, user |-> 2])
    /\ cartItems = <<>>
    /\ orders = (1 :> [total |-> 500, charge |-> 1, user |-> 1,
                       items |-> <<[title |-> "shoes", price |-> 500,
                                    quantity |-> 1, user |-> 1]>>]
                 @@ 2 :> [total |-> 500, charge |-> 2, user |-> 3,
                          items |-> <<[title |-> "shoes", price |-> 500,
                                       quantity |-> 1, user |-> 3]>>])
    /\ charges = <<[amount |-> 500, source |-> "tok_visa", captured |-> TRUE],
                   [amount |-> 500, source |-> "tok_visa", captured |-> TRUE]>>
    /\ outbox = <<>>
    /\ redeemed = <<>>
    /\ now = 0
    /\ req = [p \in Procs |-> IdleReq]
    /\ response = Response("idle", Null, NoLocal, Ok(Null))
    /\ nextId = 4
    /\ budget = MaxAdminRequests

\* Ids a client may name: those of the nodes, and one of no node.
ItemIds == DOMAIN items \cup {nextId}
UserIds == DOMAIN users \cup {nextId}
OrderIds == DOMAIN orders \cup {nextId}

AdminNext ==
    \/ \E p \in Procs, caller \in Callers,
          fields \in {[title |-> "hat", price |-> 300]} :
          createItem(p, caller, fields)
    \/ \E p \in Procs, caller \in Callers, itemId \in ItemIds, updates \in ItemFields :
          updateItem(p, caller, itemId, updates)
    \/ \E p \in Procs, caller \in Callers, itemId \in ItemIds :
          deleteItem_query(p, caller, itemId)
    \/ \E p \in Procs : deleteItem_mutate(p)
    \/ \E p \in Procs, caller \in Callers, userId \in UserIds,
          permissions \in PermissionSets :
          updatePermissions_query(p, caller, userId, permissions)
    \/ \E p \in Procs : updatePermissions_updateUser(p)
    \/ \E p \in Procs, caller \in Callers : users_query(p, caller)
    \/ \E p \in Procs, caller \in Callers, orderId \in OrderIds :
          order_query(p, caller, orderId)
    \/ \E p \in Procs, email \in {<<"A", "a">>}, password \in {"pw1"} :
          signup(p, email, password)

SpecAdmin == AdminInit /\ [][AdminNext]_vars

---------------------------------------------------------------------------
(* Claims about the cart and the checkout, under SpecCart *)

\* C1: once the addToCart calls of a user for an item have completed, however
\* their store reads and writes interleaved, the store holds one CartItem for
\* that (user, item) pair at most, never two rows.
C1_OneRowPerPair ==
    (\A p \in Procs : req[p].op # "addToCart") =>
        \A u \in DOMAIN users, i \in DOMAIN items : Cardinality(CartRows(u, i)) <= 1

\* A request of createOrder that holds a captured charge.
C3_Charged(p) ==
    /\ req[p].op = "createOrder"
    /\ req[p].pc \in {"createOrder", "deleteManyCartItems"}

\* The step is the answer to such a request, one for a cart with lines.
C3_Answered(p) ==
    C3_Charged(p) /\ req[p].local.cart # <<>> /\ req'[p].pc = "done"

\* C3: when the gateway has captured the charge, createOrder either ends with
\* an Order carrying that charge and the consumed CartItems deleted, or
\* answers with an ambiguous-outcome error; it never ends with the charge
\* captured, the rest undone and a generic failure.
C3_ChargeReconciled ==
    [][\A p \in Procs :
          C3_Answered(p)
          => \/ /\ \E o \in DOMAIN orders' :
                      orders'[o].charge = req[p].local.charge.id
                /\ CartItemsId(req[p].local.cart) \cap DOMAIN cartItems' = {}
             \/ response'.result = Err("AmbiguousOutcomeError")]_vars

\* The step is the answer to a createOrder request whose charge the gateway
\* declined.
C5_Declined(p) == At(p, "createOrder", "charge") /\ req'[p].pc = "done"

\* The step is the arrival of a createOrder request that goes on to the charge.
C5_Arrived(p) ==
    req[p].pc = "done" /\ req'[p].op = "createOrder" /\ req'[p].pc = "charge"

\* C5: when the gateway rejects the charge or is unreachable, createOrder
\* fails, and from its arrival to its answer it has created no Order and
\* deleted or modified no CartItem: its steps leave the store as it was.
C5_DeclinedLeavesStore ==
    [][\A p \in Procs :
          /\ (C5_Arrived(p) \/ C5_Declined(p))
                => UNCHANGED <<users, items, cartItems, orders>>
          /\ C5_Declined(p)
                => response'.op = "createOrder" /\ response'.result.kind = "error"]_vars

\* A declined checkout has been answered and the caller's cart is still there.
C5_Witness ==
    /\ response.op = "createOrder"
    /\ response.result = Err("GatewayError")
    /\ \E c \in DOMAIN cartItems : cartItems[c].user = response.userId
    /\ orders = <<>>

\* The sum of price x quantity over order or cart lines.
RECURSIVE C6_LineSum(_)
C6_LineSum(lines) ==
    IF lines = <<>> THEN 0
    ELSE lines[1].price * lines[1].quantity + C6_LineSum(Tail(lines))

\* C6: the total of every Order is the sum of price x quantity over the cart
\* lines read in the request that created it, which is the amount submitted
\* to and captured by the gateway, whatever payment token the client sent.
C6_TotalIsLineSum ==
    /\ \A o \in DOMAIN orders :
          /\ orders[o].total = C6_LineSum(orders[o].items)
          /\ charges[orders[o].charge].amount = orders[o].total
          /\ charges[orders[o].charge].captured
    /\ \A p \in Procs :
          C3_Charged(p) =>
             /\ req[p].local.charge.amount =
                   C6_LineSum(OrderItems(req[p].local.cart, req[p].userId))
             /\ charges[req[p].local.charge.id].amount = req[p].local.charge.amount

\* An Order of one line of two units has been created.
C6_WitnessQuantity ==
    \E o \in DOMAIN orders :
        /\ Len(orders[o].items) = 1
        /\ orders[o].items[1].quantity = 2
        /\ orders[o].total = 1000

\* C7: createOrder of a caller whose cart has no line is rejected before any
\* charge is submitted and before any Order is created.
C7_EmptyCartRejected ==
    /\ \A p \in Procs : req[p].op = "createOrder" => req[p].local.cart # <<>>
    /\ \A i \in DOMAIN charges : charges[i].amount > 0
    /\ \A o \in DOMAIN orders : orders[o].items # <<>>

\* The step is the last one of a createOrder in slot p, and answers it with
\* the Order.
C13_Succeeds(p) ==
    /\ At(p, "createOrder", "deleteManyCartItems")
    /\ req'[p].pc = "done"
    /\ response'.result = Ok(req[p].local.order)

\* The Order's lines are the cart's lines, one for one, with their quantities.
C13_OneToOne(order, cart) ==
    /\ Len(order.items) = Len(cart)
    /\ \A i \in DOMAIN cart :
          /\ order.items[i].quantity = cart[i].quantity
          /\ order.items[i].title = cart[i].item.title
          /\ order.items[i].price = cart[i].item.price

\* C13: a createOrder that succeeds while the caller's cart is still as it
\* was read leaves the caller with no CartItem, and has created an Order whose
\* lines are the lines of that cart, one for one, with the same quantities.
C13_CheckoutEmptiesCart ==
    [][\A p \in Procs :
          (C13_Succeeds(p) /\ CartOf(req[p].userId) = req[p].local.cart)
          => /\ \A c \in DOMAIN cartItems' : cartItems'[c].user # req[p].userId
             /\ req[p].local.order \in DOMAIN orders'
             /\ orders'[req[p].local.order].user = req[p].userId
             /\ C13_OneToOne(orders'[req[p].local.order], CartOf(req[p].userId))]_vars

\* A createOrder has been answered with an Order of one line of two units,
\* and the cart is empty.
C13_Witness ==
    /\ response.op = "createOrder"
    /\ response.result.kind = "ok"
    /\ response.result.value \in DOMAIN orders
    /\ Len(orders[response.result.value].items) = 1
    /\ orders[response.result.value].items[1].quantity = 2
    /\ cartItems = <<>>

\* The step is the write of an addToCart in slot p, and the caller's rows for
\* the item are as the request read them.
C16_Sequential(p) ==
    /\ At(p, "addToCart", "mutate")
    /\ req'[p].pc = "done"
    /\ FirstCartItem(req[p].userId, req[p].args.id) = req[p].local.existingCartItem

\* C16: an addToCart that no other request on the pair overlaps creates the
\* pair's one line with quantity 1 when the cart has none, and otherwise adds
\* exactly 1 to the existing line and creates no line; two such calls from a
\* cart without the item leave one line of quantity 2.
C16_SequentialAdds ==
    [][\A p \in Procs :
          C16_Sequential(p)
          => LET userId == req[p].userId
                 itemId == req[p].args.id
                 before == CartRows(userId, itemId)
                 after == {c \in DOMAIN cartItems' :
                             cartItems'[c].user = userId /\ cartItems'[c].item = itemId}
             IN IF before = {}
                THEN /\ Cardinality(after) = 1
                     /\ \A c \in after : cartItems'[c].quantity = 1
                ELSE /\ after = before
                     /\ \E c \in before :
                           /\ cartItems'[c].quantity = cartItems[c].quantity + 1
                           /\ \A d \in before \ {c} : cartItems'[d] = cartItems[d]]_vars

\* Two addToCart calls have been made and answered, the second with the line
\* the first created, which is the only one and holds two units.
C16_Witness ==
    /\ budget = MaxCartRequests - 2
    /\ \A p \in Procs : req[p].pc = "done"
    /\ response.op = "addToCart"
    /\ response.result.kind = "ok"
    /\ DOMAIN cartItems = {response.result.value}
    /\ cartItems[response.result.value].quantity = 2

\* C17: the increment of addToCart is atomic: every updateCartItem of an
\* addToCart leaves the line with one unit more than it held just before, so
\* that k calls on a line of quantity q leave q + k.
C17_AtomicIncrement ==
    [][\A p \in Procs :
          (/\ At(p, "addToCart", "mutate")
           /\ req'[p].pc = "done"
           /\ response'.result.kind = "ok"
           /\ req[p].local.existingCartItem.id # Null)
          => LET c == req[p].local.existingCartItem.id
             IN cartItems'[c].quantity = cartItems[c].quantity + 1]_vars

\* C18: every CartItem a createOrder deletes holds, at the time it is
\* deleted, the quantity recorded for it in the Order.
C18_DeletesWhatItConsumed ==
    [][\A p \in Procs :
          C13_Succeeds(p)
          => \A i \in DOMAIN req[p].local.cart :
                LET c == req[p].local.cart[i].id
                IN (c \in DOMAIN cartItems /\ c \notin DOMAIN cartItems')
                   => cartItems[c].quantity
                        = orders[req[p].local.order].items[i].quantity]_vars

\* C19: no two createOrder requests have both had a charge accepted and an
\* Order created from the same CartItem.
C19_ConsumedOnce ==
    \A p, q \in Procs :
        (/\ p # q
         /\ At(p, "createOrder", "deleteManyCartItems")
         /\ At(q, "createOrder", "deleteManyCartItems"))
        => CartItemsId(req[p].local.cart) \cap CartItemsId(req[q].local.cart) = {}

---------------------------------------------------------------------------
(* Claims about the password reset, under SpecReset *)

C2_InvalidOrExpired == Err("This token is wither invalid or expired!")

\* The token is some user's reset token and its expiry instant has passed.
C2_Expired(resetToken) ==
    \E u \in DOMAIN users :
        /\ users[u].resetToken = resetToken
        /\ users[u].resetTokenExpiry < now

\* C2: resetPassword called with a token whose expiry instant (the instant of
\* the requestReset that issued it plus one hour) has passed is answered with
\* the invalid-or-expired-token error, and the users (password hash, reset
\* token, expiry) are left as they are.
C2_ExpiredTokenFails ==
    [][\A p \in Procs, resetToken \in ResetTokens, password \in Passwords :
          (resetPassword_query(p, resetToken, password, password)
             /\ C2_Expired(resetToken))
          => /\ response'.op = "resetPassword"
             /\ response'.result = C2_InvalidOrExpired
             /\ req' = req
             /\ users' = users]_vars

\* C4: each issued reset token leads to one successful resetPassword at most:
\* no token is redeemed twice, whether the two calls follow each other or
\* interleave.
C4_RedeemedOnce ==
    \A i, j \in DOMAIN redeemed : i # j => redeemed[i] # redeemed[j]

\* C14: a requestReset that has stored its token answers with the same status
\* message whether the mail is delivered or the transport fails, and leaves
\* the token and the expiry on the user in both cases.
C14_SendFailureHidden ==
    [][\A p \in Procs :
          (At(p, "requestReset", "sendMail") /\ req'[p].pc = "done")
          => /\ response'.result = Ok([message |-> "Thanks!"])
             /\ users' = users]_vars

\* The step is the write of a resetPassword in slot p, on user u.
C15_Redeems(p, u) ==
    /\ At(p, "resetPassword", "updateUser")
    /\ req'[p].pc = "done"
    /\ response'.result = Session(u)

\* C15: a user has one active reset token at most, the newest: resetPassword
\* with a token other than the one the user holds is refused on arrival, and
\* no resetPassword succeeds with a token when the user holds another one,
\* issued by a later requestReset.
C15_OneActiveToken ==
    [][/\ \A p \in Procs, resetToken \in ResetTokens, password \in Passwords :
             (/\ resetPassword_query(p, resetToken, password, password)
              /\ \A u \in DOMAIN users : users[u].resetToken # resetToken)
             => response'.result = C2_InvalidOrExpired
       /\ \A p \in Procs, u \in DOMAIN users :
             C15_Redeems(p, u)
             => users[u].resetToken \in {Null, req[p].args.resetToken}]_vars

---------------------------------------------------------------------------
(* Claims about the catalog and the permissions, under SpecAdmin *)

\* Permissions that allow changing an item of another user.
C8_ItemUpdatePermissions == {"ADMIN", "ITEMUPDATE"}

\* The caller has a session and owns the item or holds such a permission.
C8_MayUpdate(caller, item) ==
    /\ caller # Null
    /\ \/ item.user = caller
       \/ users[caller].permissions \cap C8_ItemUpdatePermissions # {}

\* C8: a field of an Item changes only in a step of an updateItem request
\* whose caller has a session and either owns the item or holds a permission
\* that allows it.
C8_UpdateItemGuarded ==
    [][\A i \in DOMAIN items \cap DOMAIN items' :
          items'[i] # items[i]
          => /\ response'.op = "updateItem"
             /\ C8_MayUpdate(response'.userId, items[i])]_vars

\* The caller holds neither ADMIN nor PERMISSIONUPDATE, or has no session.
C9_Lacks(caller) ==
    \/ caller = Null
    \/ users[caller].permissions \cap {"ADMIN", "PERMISSIONUPDATE"} = {}

\* The step answers an updatePermissions request of this caller on arrival.
C9_AnsweredOnArrival(caller) ==
    /\ budget' # budget
    /\ req' = req
    /\ response'.op = "updatePermissions"
    /\ response'.userId = caller

\* The step lets an updatePermissions request of this caller go on to its write.
C9_Admitted(caller) ==
    \E p \in Procs :
        /\ req[p].pc = "done"
        /\ req'[p].op = "updatePermissions"
        /\ req'[p].pc # "done"
        /\ req'[p].userId = caller

\* C9: updatePermissions of a caller who holds neither ADMIN nor
\* PERMISSIONUPDATE is never let through to the write: it is answered on
\* arrival with an authorization error and every user's permissions stay as
\* they are; a caller without a session is answered with the login error,
\* with no change either.
C9_UpdatePermissionsGuarded ==
    [][\A caller \in Callers :
          C9_Lacks(caller)
          => /\ ~C9_Admitted(caller)
             /\ C9_AnsweredOnArrival(caller)
                  => /\ response'.result =
                          IF caller = Null
                          THEN Err("You must be logged in!")
                          ELSE Err("You do not have sufficient permissions")
                     /\ users' = users]_vars

\* A plain user's updatePermissions has been refused, and the administrator
\* is still the only one who holds ADMIN.
C9_Witness ==
    /\ response.op = "updatePermissions"
    /\ response.userId = 2
    /\ response.result = Err("You do not have sufficient permissions")
    /\ users[2].permissions = {"USER"}
    /\ users[1].permissions = {"ADMIN", "USER"}

\* The step answers a users query of this caller.
C11_UsersAnswered(caller) ==
    /\ budget' # budget
    /\ req' = req
    /\ response'.op = "users"
    /\ response'.userId = caller

\* C11: the users query of a caller with a session succeeds if and only if
\* the caller holds ADMIN or PERMISSIONUPDATE, the guard of updatePermissions;
\* a caller who holds PERMISSIONUPDATE and not ADMIN can list the users.
C11_UsersGuardedLikeUpdatePermissions ==
    [][\A caller \in DOMAIN users :
          C11_UsersAnswered(caller)
          => (response'.result = Ok(DOMAIN users)
              <=> hasPermission(users[caller].permissions, UpdatePermissionsNeeded))]_vars

\* C12: every user holds at least one permission, whatever permissions
\* signup and updatePermissions have written.
C12_PermissionsNonEmpty ==
    \A u \in DOMAIN users : users[u].permissions # {}

\* C20: the order query returns an existing order to a caller with a session
\* if and only if the caller owns the order or holds ADMIN; the owner of an
\* order who does not hold ADMIN can read it.
C20_OrderForOwnerOrAdmin ==
    [][\A p \in Procs, caller \in DOMAIN users, orderId \in DOMAIN orders :
          order_query(p, caller, orderId)
          => (response'.result = Ok(orderId)
              <=> \/ orders[orderId].user = caller
                  \/ "ADMIN" \in users[caller].permissions)]_vars

---------------------------------------------------------------------------
(* Claims about sign-in, under SpecAuth *)

\* A signed-up user whose email is the lowercase form of the one given.
C10_Registered(u, email) == u \in DOMAIN users /\ users[u].email = toLowerCase(email)

\* C10: for a signed-up user, signin with the right password succeeds for
\* every letter-case variant of the email, and requestReset finds the same
\* user for every such variant.
C10_CaseInsensitiveLookup ==
    [][\A p \in Procs, email \in Emails, u \in DOMAIN users :
          C10_Registered(u, email)
          => /\ \A password \in Passwords :
                   (signin(p, email, password) /\ Compare(password, users[u].password))
                   => response'.result = Session(u)
             /\ requestReset_query(p, email)
                   => req'[p].pc = "updateUser" /\ req'[p].local.user = u]_vars

=============================================================================
